---- MODULE Spec2Model ----
(***************************************************************************)
(* Model of the noiseguard native core:                                    *)
(*   - RingBuffer (native/src/ringbuffer.h): lock-free SPSC sample queue,  *)
(*     one producer thread, one consumer thread, interleaved at the level  *)
(*     of index loads, per-sample copies and index stores.                 *)
(*   - RNNoiseWrapper (native/src/rnnoise_wrapper.cpp): per-frame gate     *)
(*     pipeline around the external RNNoise engine.                        *)
(* Spec runs the ring buffer.  The frame processor is run by SpecFP (its   *)
(* whole interface over a few frames), SpecGate (the gate over any number  *)
(* of frames), SpecOpen (the gate shut and opened again), SpecNoise        *)
(* (bypass and comfort noise), SpecInit (init() at any time) and           *)
(* SpecSettings (setters and getters).                                     *)
(***************************************************************************)
EXTENDS Integers, Sequences, FiniteSets, TLC

(* ------------------------------------------------------------------ *)
(* Bounds of the model                                                  *)
(* ------------------------------------------------------------------ *)

\* width in bits of size_t in the model (the indices are size_t counters)
IdxBits == 4
\* capacity requested from the RingBuffer constructor
ReqCapacity == 3
\* largest count argument passed to write() / read()
MaxCount == 4
\* total number of samples the producer gets accepted over a run
MaxSamples == 18

Modulus == 2 ^ IdxBits

(* ------------------------------------------------------------------ *)
(* size_t arithmetic                                                    *)
(* ------------------------------------------------------------------ *)

\* unsigned addition and subtraction of size_t values
UAdd(a, b) == (a + b) % Modulus
USub(a, b) == (a - b + Modulus) % Modulus

RECURSIVE BitOr(_, _)
BitOr(a, b) ==
  IF a = 0 THEN b
  ELSE IF b = 0 THEN a
  ELSE (IF a % 2 = 1 \/ b % 2 = 1 THEN 1 ELSE 0) + 2 * BitOr(a \div 2, b \div 2)

RECURSIVE BitAnd(_, _)
BitAnd(a, b) ==
  IF a = 0 \/ b = 0 THEN 0
  ELSE (IF a % 2 = 1 /\ b % 2 = 1 THEN 1 ELSE 0) + 2 * BitAnd(a \div 2, b \div 2)

\* the loop of nextPowerOf2: for (i = 1; i < bits; i *= 2) n |= n >> i
RECURSIVE Smear(_, _)
Smear(n, i) == IF i >= IdxBits THEN n ELSE Smear(BitOr(n, n \div (2 ^ i)), 2 * i)

nextPowerOf2(n) == IF n = 0 THEN 1 ELSE UAdd(Smear(n - 1, 1), 1)

capacity_ == nextPowerOf2(ReqCapacity)
mask_ == USub(capacity_, 1)
Slots == 0 .. (capacity_ - 1)

\* used = (w >= r) ? (w - r) : (capacity_ - (r - w))
UsedOf(w, r) == IF w >= r THEN w - r ELSE USub(capacity_, r - w)
\* free = capacity_ - used - 1
FreeOf(used) == USub(USub(capacity_, used), 1)
\* if (count > limit) count = limit
ClampCount(count, limit) == IF count > limit THEN limit ELSE count
\* (idx + i) & mask_
SlotOf(idx, i) == BitAnd(UAdd(idx, i), mask_)

(* ------------------------------------------------------------------ *)
(* State                                                                *)
(* ------------------------------------------------------------------ *)

VARIABLES
  buffer_,     \* sample storage, Slots -> sample
  read_idx_,   \* atomic read index
  write_idx_,  \* atomic write index
  prod,        \* producer thread: record of its position and locals
  cons,        \* consumer thread: record of its position and locals
  accepted,    \* number of samples accepted and published by write() so far
  writeLog,    \* the samples accepted by write(), in order
  readLog,     \* the samples returned by read(), in order
  \* RNNoiseWrapper
  alive,                 \* the object exists (its destructor has not run)
  state_,                \* engine handle, NULL when none is held
  suppressionLevel_,     \* atomic float
  vadThreshold_,         \* atomic float
  comfortNoiseEnabled_,  \* atomic bool
  smoothGain_,           \* smoothed gate gain
  noiseState_,           \* xorshift32 state, 32 bits
  metrics_,              \* AudioMetrics
  frame,                 \* the caller's frame buffer after the last processFrame()
  frameIn,               \* the same buffer as it was passed in
  call,                  \* the last call that returns a value: what it returned,
                         \* whether it ran the engine, which gate branch it took
  engine,                \* the engine library: handles created, handles destroyed
  frames,                \* processFrame() calls made so far, counted up to MaxFrames
  draws,                 \* comfortNoiseSample() calls since the generator was seeded
  setArg                 \* the float last handed to the store of each setting: its
                         \* member initializer, then the argument of its setter

rbVars == <<buffer_, read_idx_, write_idx_, prod, cons, accepted, writeLog, readLog>>
fpVars == <<alive, state_, suppressionLevel_, vadThreshold_, comfortNoiseEnabled_,
            smoothGain_, noiseState_, metrics_, frame, frameIn, call, engine,
            frames, draws, setArg>>
vars == <<rbVars, fpVars>>

\* what new float[capacity_] may hold before the first store to a slot
Uninit == {0, 1}

\* a thread that is outside any call.  w, r, count, i are the locals of the
\* call in progress, req the count it was called with, limit the free space
\* (write) or the used space (read) it computed, buf the samples of src or dst,
\* ret what it returns; live is the number of unread samples in the queue at
\* the moment the call loaded the other thread's index; granted is what the
\* thread's last availability query for its own role returned (available_write
\* for the producer, available_read for the consumer) if it has made no
\* write() / read() since, NoGrant otherwise
NoGrant == -1

Idle == [pc |-> "idle", op |-> "none", w |-> 0, r |-> 0, req |-> 0, count |-> 0,
         limit |-> 0, i |-> 0, buf |-> << >>, ret |-> 0, live |-> 0,
         granted |-> NoGrant]

\* the granted field of a thread once its call has returned
GrantedAfter(t, query, transfer) ==
  IF t.op = query THEN t.ret
  ELSE IF t.op = transfer THEN NoGrant
  ELSE t.granted

InitRB ==
  /\ buffer_ \in [Slots -> Uninit]
  /\ read_idx_ = 0
  /\ write_idx_ = 0
  /\ prod = Idle
  /\ cons = Idle
  /\ accepted = 0
  /\ writeLog = << >>
  /\ readLog = << >>

\* samples published by write() and not yet consumed by a completed read()
Unread == Len(writeLog) - Len(readLog)

\* the samples the producer offers in a call: the k-th accepted sample of the
\* run is the value k (a ramp), so every sample in flight is distinct
SrcOf(count) == [i \in 1 .. count |-> accepted + i]

(* ------------------------------------------------------------------ *)
(* RingBuffer::write, producer thread  (ringbuffer.h:53-65)            *)
(* ------------------------------------------------------------------ *)

\* line 54: the call and the relaxed load of the own write index
WriteCall(count) ==
  /\ prod.pc = "idle"
  /\ accepted + count <= MaxSamples
  /\ prod' = [Idle EXCEPT !.pc = "load_r", !.op = "write", !.w = write_idx_,
                          !.req = count, !.count = count, !.buf = SrcOf(count),
                          !.granted = prod.granted]
  /\ UNCHANGED <<buffer_, read_idx_, write_idx_, cons, accepted, writeLog, readLog>>

\* lines 55-59: acquire load of the read index, free space, clamp, early return
WriteLoadR ==
  /\ prod.pc = "load_r"
  /\ prod.op = "write"
  /\ LET r == read_idx_
         free == FreeOf(UsedOf(prod.w, r))
         count == ClampCount(prod.count, free)
     IN prod' = [prod EXCEPT !.r = r, !.limit = free, !.count = count,
                             !.live = Unread,
                             !.pc = IF count = 0 THEN "done" ELSE "copy",
                             !.ret = 0]
  /\ UNCHANGED <<buffer_, read_idx_, write_idx_, cons, accepted, writeLog, readLog>>

\* lines 60-62: one iteration of the copy loop
WriteCopy ==
  /\ prod.pc = "copy"
  /\ prod.op = "write"
  /\ buffer_' = [buffer_ EXCEPT ![SlotOf(prod.w, prod.i)] = prod.buf[prod.i + 1]]
  /\ prod' = [prod EXCEPT !.i = prod.i + 1,
                          !.pc = IF prod.i + 1 < prod.count THEN "copy" ELSE "store"]
  /\ UNCHANGED <<read_idx_, write_idx_, cons, accepted, writeLog, readLog>>

\* lines 63-64: release store of the write index, return count
WriteStore ==
  /\ prod.pc = "store"
  /\ prod.op = "write"
  /\ write_idx_' = UAdd(prod.w, prod.count)
  /\ accepted' = accepted + prod.count
  /\ writeLog' = writeLog \o SubSeq(prod.buf, 1, prod.count)
  /\ prod' = [prod EXCEPT !.pc = "done", !.ret = prod.count]
  /\ UNCHANGED <<buffer_, read_idx_, cons, readLog>>

(* ------------------------------------------------------------------ *)
(* RingBuffer::read, consumer thread  (ringbuffer.h:68-79)             *)
(* ------------------------------------------------------------------ *)

\* line 69: the call and the relaxed load of the own read index
ReadCall(count) ==
  /\ cons.pc = "idle"
  /\ cons' = [Idle EXCEPT !.pc = "load_w", !.op = "read", !.r = read_idx_,
                          !.req = count, !.count = count,
                          !.granted = cons.granted]
  /\ UNCHANGED <<buffer_, read_idx_, write_idx_, prod, accepted, writeLog, readLog>>

\* lines 70-73: acquire load of the write index, used, clamp, early return
ReadLoadW ==
  /\ cons.pc = "load_w"
  /\ cons.op = "read"
  /\ LET w == write_idx_
         used == UsedOf(w, cons.r)
         count == ClampCount(cons.count, used)
     IN cons' = [cons EXCEPT !.w = w, !.limit = used, !.count = count,
                             !.live = Unread,
                             !.pc = IF count = 0 THEN "done" ELSE "copy",
                             !.ret = 0]
  /\ UNCHANGED <<buffer_, read_idx_, write_idx_, prod, accepted, writeLog, readLog>>

\* lines 74-76: one iteration of the copy loop
ReadCopy ==
  /\ cons.pc = "copy"
  /\ cons.op = "read"
  /\ cons' = [cons EXCEPT !.buf = Append(cons.buf, buffer_[SlotOf(cons.r, cons.i)]),
                          !.i = cons.i + 1,
                          !.pc = IF cons.i + 1 < cons.count THEN "copy" ELSE "store"]
  /\ UNCHANGED <<buffer_, read_idx_, write_idx_, prod, accepted, writeLog, readLog>>

\* lines 77-78: release store of the read index, return count
ReadStore ==
  /\ cons.pc = "store"
  /\ cons.op = "read"
  /\ read_idx_' = UAdd(cons.r, cons.count)
  /\ readLog' = readLog \o cons.buf
  /\ cons' = [cons EXCEPT !.pc = "done", !.ret = cons.count]
  /\ UNCHANGED <<buffer_, write_idx_, prod, accepted, writeLog>>

(* ------------------------------------------------------------------ *)
(* RingBuffer::available_read / available_write  (ringbuffer.h:42-50)  *)
(* called from the producer thread or from the consumer thread          *)
(* ------------------------------------------------------------------ *)

AvailOps == {"available_read", "available_write"}

\* what the call returns from the two indices it loaded
AvailResult(op, w, r) ==
  IF op = "available_read" THEN UsedOf(w, r) ELSE FreeOf(UsedOf(w, r))

\* line 43: the call and the acquire load of the write index
ProdAvailLoadW(op) ==
  /\ prod.pc = "idle"
  /\ prod' = [Idle EXCEPT !.pc = "load_r", !.op = op, !.w = write_idx_,
                          !.granted = prod.granted]
  /\ UNCHANGED <<buffer_, read_idx_, write_idx_, cons, accepted, writeLog, readLog>>

\* lines 44-46 (and 50): the acquire load of the read index and the result
ProdAvailLoadR ==
  /\ prod.pc = "load_r"
  /\ prod.op \in AvailOps
  /\ prod' = [prod EXCEPT !.r = read_idx_, !.pc = "done",
                          !.ret = AvailResult(prod.op, prod.w, read_idx_)]
  /\ UNCHANGED <<buffer_, read_idx_, write_idx_, cons, accepted, writeLog, readLog>>

ConsAvailLoadW(op) ==
  /\ cons.pc = "idle"
  /\ cons' = [Idle EXCEPT !.pc = "load_r", !.op = op, !.w = write_idx_,
                          !.granted = cons.granted]
  /\ UNCHANGED <<buffer_, read_idx_, write_idx_, prod, accepted, writeLog, readLog>>

ConsAvailLoadR ==
  /\ cons.pc = "load_r"
  /\ cons.op \in AvailOps
  /\ cons' = [cons EXCEPT !.r = read_idx_, !.pc = "done",
                          !.ret = AvailResult(cons.op, cons.w, read_idx_)]
  /\ UNCHANGED <<buffer_, read_idx_, write_idx_, prod, accepted, writeLog, readLog>>

\* the call returns to its caller: the thread is outside any call again
ProdReturn ==
  /\ prod.pc = "done"
  /\ prod' = [Idle EXCEPT !.granted = GrantedAfter(prod, "available_write", "write")]
  /\ UNCHANGED <<buffer_, read_idx_, write_idx_, cons, accepted, writeLog, readLog>>

ConsReturn ==
  /\ cons.pc = "done"
  /\ cons' = [Idle EXCEPT !.granted = GrantedAfter(cons, "available_read", "read")]
  /\ UNCHANGED <<buffer_, read_idx_, write_idx_, prod, accepted, writeLog, readLog>>

NextRB ==
  \/ \E count \in 0 .. MaxCount : WriteCall(count)
  \/ WriteLoadR
  \/ WriteCopy
  \/ WriteStore
  \/ \E count \in 0 .. MaxCount : ReadCall(count)
  \/ ReadLoadW
  \/ ReadCopy
  \/ ReadStore
  \/ \E op \in AvailOps : ProdAvailLoadW(op)
  \/ ProdAvailLoadR
  \/ \E op \in AvailOps : ConsAvailLoadW(op)
  \/ ConsAvailLoadR
  \/ ProdReturn
  \/ ConsReturn


(* ------------------------------------------------------------------ *)
(* Fixed-point arithmetic standing for float                           *)
(* ------------------------------------------------------------------ *)

\* the value 1.0f; every float of the wrapper is held in units of 1/One
One == 10 ^ 3

Max(a, b) == IF a >= b THEN a ELSE b
Min(a, b) == IF a <= b THEN a ELSE b

\* n / d rounded to the nearest unit, as a float operation rounds its result
RoundDiv(n, d) ==
  IF n >= 0 THEN (2 * n + d) \div (2 * d) ELSE -((2 * (-n) + d) \div (2 * d))

\* product and quotient of two fixed-point values
Mul(a, b) == RoundDiv(a * b, One)
Div(a, b) == RoundDiv(a * One, b)

\* std::clamp(v, lo, hi)
StdClamp(v, lo, hi) == IF v < lo THEN lo ELSE IF hi < v THEN hi ELSE v

RECURSIVE SqrtSearch(_, _, _)
SqrtSearch(n, lo, hi) ==
  IF lo >= hi THEN lo
  ELSE LET mid == (lo + hi + 1) \div 2
       IN IF mid * mid <= n THEN SqrtSearch(n, mid, hi) ELSE SqrtSearch(n, lo, mid - 1)

\* std::sqrt on a non-negative value, rounded to the nearest unit
Sqrt(n) ==
  LET r == SqrtSearch(n, 0, 46340) IN IF n - r * r > r THEN r + 1 ELSE r

(* ------------------------------------------------------------------ *)
(* RNNoiseWrapper: constants  (rnnoise_wrapper.cpp:31-50)              *)
(* ------------------------------------------------------------------ *)

\* number of samples of a frame in the model (kRNNoiseFrameSize, scaled down)
FrameLen == 2
\* width in bits of the framesProcessed counter in the model
CtrBits == 1
\* engine handles rnnoise_create can hand out over a run
MaxHandles == 2
\* processFrame() calls of a run of SpecFP
MaxFrames == 3
\* comfort-noise samples drawn from one seeding of the generator in SpecGate
MaxDraws == 2

kRNNoiseFrameSize == FrameLen
\* the smoothing coefficient doubled
kGainSmoothCoeffTwice == (16 * One) \div 100
kGainSmoothCoeff == (8 * One) \div 100
kMinGateGain == One \div 1000
kComfortNoiseLevel == One \div 1000
kVadHysteresis == One \div 10
\* the literal 0.01f of the ratio's denominator
kMinRatioDenom == One \div 100
\* the literal 0.1f below which comfort noise is injected
kComfortGainLimit == One \div 10
\* the factor 32767.0f into and out of the engine's int16 range
kInt16Scale == 32767

NULL == 0
FrameIdx == 1 .. kRNNoiseFrameSize

(* ------------------------------------------------------------------ *)
(* Helpers  (rnnoise_wrapper.cpp:201-218)                              *)
(* ------------------------------------------------------------------ *)

RECURSIVE SumSq(_, _)
SumSq(buf, n) == IF n = 0 THEN 0 ELSE buf[n] * buf[n] + SumSq(buf, n - 1)

\* sqrt(sum of squares / len)
computeRms(buf) == Sqrt(RoundDiv(SumSq(buf, Len(buf)), Len(buf)))

Bit32 == 0 .. 31
\* the 32-bit word whose upper and lower halves are hi and lo
BitsOf(hi, lo) ==
  [i \in Bit32 |-> IF i < 16 THEN (lo \div (2 ^ i)) % 2 ELSE (hi \div (2 ^ (i - 16))) % 2]
Shl(x, k) == [i \in Bit32 |-> IF i >= k THEN x[i - k] ELSE 0]
Shr(x, k) == [i \in Bit32 |-> IF i + k <= 31 THEN x[i + k] ELSE 0]
Xor(x, y) == [i \in Bit32 |-> (x[i] + y[i]) % 2]

\* uint32_t noiseState_ = 0x12345678
kNoiseSeed == BitsOf(4660, 22136)

\* lines 211-213: one step of the generator
Xorshift32(x) ==
  LET a == Xor(x, Shl(x, 13))
      b == Xor(a, Shr(a, 17))
  IN Xor(b, Shl(b, 5))

RECURSIVE NoiseAfter(_, _)
\* the generator state after n calls of comfortNoiseSample()
NoiseAfter(x, n) == IF n = 0 THEN x ELSE Xorshift32(NoiseAfter(x, n - 1))

RECURSIVE HighHalf(_, _)
HighHalf(x, i) == IF i > 31 THEN 0 ELSE x[i] * (2 ^ (i - 16)) + HighHalf(x, i + 1)

\* static_cast<int32_t>(noiseState_) / 2^31, from the upper 16 bits of the word
\* (the float conversion itself keeps 24 of the 32 bits), times kComfortNoiseLevel
NoiseSample(x) ==
  LET u == HighHalf(x, 16)
      signed == IF u >= 2 ^ 15 THEN u - 2 ^ 16 ELSE u
  IN RoundDiv(signed * kComfortNoiseLevel, 2 ^ 15)

(* ------------------------------------------------------------------ *)
(* The external engine (rnnoise.h), a black box                        *)
(* ------------------------------------------------------------------ *)

EngineModes == {"identity", "mute", "half"}

\* what rnnoise_process_frame leaves in the frame: any of a few behaviours
EngineOutput(eng, x) ==
  IF eng = "identity" THEN x
  ELSE IF eng = "mute" THEN [i \in DOMAIN x |-> 0]
  ELSE [i \in DOMAIN x |-> x[i] \div 2]

(* ------------------------------------------------------------------ *)
(* RNNoiseWrapper::processFrame  (rnnoise_wrapper.cpp:80-173)          *)
(* ------------------------------------------------------------------ *)

\* lines 134-146: target gate gain from the VAD probability
TargetGain(vad, vadThresh) ==
  IF vad >= vadThresh THEN One
  ELSE IF vad < vadThresh - kVadHysteresis
  THEN LET ratio == Div(vad, Max(vadThresh - kVadHysteresis, kMinRatioDenom))
       IN Max(kMinGateGain + Mul(ratio, One - kMinGateGain), kMinGateGain)
  ELSE LET ratio == Div(vad - (vadThresh - kVadHysteresis), kVadHysteresis)
       IN kMinGateGain + Mul(ratio, One - kMinGateGain)

\* which of the three branches of lines 135-146 a frame takes
GateBranch(vad, vadThresh) ==
  IF vad >= vadThresh THEN "open"
  ELSE IF vad < vadThresh - kVadHysteresis THEN "below"
  ELSE "band"

\* the smoothing with the difference taken the wrong way round
SmoothGainReversed(gain, targetGain) ==
  StdClamp(gain + Mul(kGainSmoothCoeff, gain - targetGain), kMinGateGain, One)

\* lines 149-150: exponential smoothing and clamp
SmoothGain(gain, targetGain) ==
  StdClamp(gain + Mul(kGainSmoothCoeff, targetGain - gain), kMinGateGain, One)

\* fetch_add(1) on the frame counter
NextCount(n) == (n + 1) % (2 ^ CtrBits)

\* a fast path that sets the smoothed gain to the 1.0 it publishes
FastPathGainReset(gain) == One

\* lines 86-94 do not assign smoothGain_
FastPathGain(gain) == gain

\* lines 86-94: the fast path; the frame is not written
FastPath(f) ==
  LET rms == computeRms(f)
  IN [frame |-> f, gain |-> FastPathGain(smoothGain_), noise |-> noiseState_,
      drawn |-> 0, ret |-> 0,
      engineRan |-> FALSE, gate |-> "none",
      metrics |-> [inputRms |-> rms, outputRms |-> rms, vadProbability |-> 0,
                   currentGain |-> One,
                   framesProcessed |-> NextCount(metrics_.framesProcessed)]]

\* a comfort-noise test that does not look at the flag
ComfortNoiseAnyFlag(enabled, gain) == gain < kComfortGainLimit

\* lines 159-160: comfortNoiseEnabled_ && smoothGain_ < 0.1f
ComfortNoiseOn(enabled, gain) == enabled /\ gain < kComfortGainLimit

\* lines 96-172: the full path, with the suppression level read at line 83
FullPath(f, vad, eng, level) ==
  LET inputRms == computeRms(f)
      scaled == [i \in FrameIdx |-> f[i] * kInt16Scale]
      out == EngineOutput(eng, scaled)
      back == [i \in FrameIdx |-> RoundDiv(out[i], kInt16Scale)]
      blended == IF level < One
                 THEN [i \in FrameIdx |-> Mul(back[i], level) + Mul(f[i], One - level)]
                 ELSE back
      gain == SmoothGain(smoothGain_, TargetGain(vad, vadThreshold_))
      gated == [i \in FrameIdx |-> Mul(blended[i], gain)]
      noisy == ComfortNoiseOn(comfortNoiseEnabled_, gain)
      comfortScale == Div(kComfortGainLimit - gain, kComfortGainLimit)
      final == IF noisy
               THEN [i \in FrameIdx |->
                       gated[i] + Mul(NoiseSample(NoiseAfter(noiseState_, i)), comfortScale)]
               ELSE gated
  IN [frame |-> final, gain |-> gain,
      noise |-> IF noisy THEN NoiseAfter(noiseState_, kRNNoiseFrameSize) ELSE noiseState_,
      drawn |-> IF noisy THEN kRNNoiseFrameSize ELSE 0,
      ret |-> vad, engineRan |-> TRUE, gate |-> GateBranch(vad, vadThreshold_),
      metrics |-> [inputRms |-> inputRms, outputRms |-> computeRms(final),
                   vadProbability |-> vad, currentGain |-> gain,
                   framesProcessed |-> NextCount(metrics_.framesProcessed)]]

\* processFrame() without its check of the handle
UninitializedUnchecked(h) == FALSE

\* line 81: if (!state_)
Uninitialized(h) == h = NULL

\* the fast-path test written with < for <=
PassThroughStrict(level) == level < 0

\* line 86: if (level <= 0.0f)
PassThrough(level) == level <= 0

\* processFrame(frame) on a buffer holding f, with the engine answering (eng, vad)
ProcessFrame(f, vad, eng) ==
  /\ alive
  /\ frameIn' = f
  /\ frames' = Min(frames + 1, MaxFrames)
  /\ IF Uninitialized(state_)
     THEN /\ frame' = f
          /\ call' = [op |-> "processFrame", ret |-> 0, engineRan |-> FALSE,
                       gate |-> "none"]
          /\ UNCHANGED <<smoothGain_, noiseState_, metrics_, draws>>
     ELSE \E res \in {IF PassThrough(suppressionLevel_)
                        THEN FastPath(f)
                        ELSE FullPath(f, vad, eng, suppressionLevel_)} :
             /\ frame' = res.frame
             /\ smoothGain_' = res.gain
             /\ noiseState_' = res.noise
             /\ draws' = draws + res.drawn
             /\ metrics_' = res.metrics
             /\ call' = [op |-> "processFrame", ret |-> res.ret,
                          engineRan |-> res.engineRan, gate |-> res.gate]
  /\ UNCHANGED <<alive, state_, suppressionLevel_, vadThreshold_, comfortNoiseEnabled_,
                 engine, setArg>>
  /\ UNCHANGED rbVars

(* ------------------------------------------------------------------ *)
(* Lifecycle  (rnnoise_wrapper.cpp:54-76)                              *)
(* ------------------------------------------------------------------ *)

\* the gain initialised to 0.0f
InitialGainZero == 0 * One

\* float smoothGain_ = 1.0f, and line 61 of init()
InitialGain == One

\* the engine library after rnnoise_destroy(h)
EngineDestroy(e, h) == [e EXCEPT !.destroyed[h] = e.destroyed[h] + 1]

\* destroy() without state_ = nullptr
AfterDestroyKept(h) == h

\* line 74: the wrapper's handle after the body of destroy()
AfterDestroy(h) == NULL

\* the engine library after destroy() on a wrapper holding h
DestroyEffect(e, h) == IF h /= NULL THEN EngineDestroy(e, h) ELSE e

\* the default members of AudioMetrics
ResetMetrics ==
  [inputRms |-> 0, outputRms |-> 0, vadProbability |-> 0, currentGain |-> One,
   framesProcessed |-> 0]

\* an init() that leaves the noise generator where it is
InitNoiseKept(x) == x

\* line 62: noiseState_ = 0x12345678
InitNoise(x) == kNoiseSeed

\* init(); ok says whether rnnoise_create succeeds
InitCall(ok) ==
  /\ alive
  /\ ok => engine.created < MaxHandles
  /\ LET e1 == DestroyEffect(engine, state_)
         h == IF ok THEN e1.created + 1 ELSE NULL
     IN /\ engine' = IF ok THEN [e1 EXCEPT !.created = h] ELSE e1
        /\ state_' = h
        /\ call' = [op |-> "init", ret |-> (h /= NULL), engineRan |-> FALSE,
                     gate |-> "none"]
  /\ smoothGain_' = InitialGain
  /\ noiseState_' = InitNoise(noiseState_)
  /\ draws' = 0
  /\ metrics_' = ResetMetrics
  /\ UNCHANGED <<alive, suppressionLevel_, vadThreshold_, comfortNoiseEnabled_,
                 frame, frameIn, frames, setArg>>
  /\ UNCHANGED rbVars

\* destroy()
Destroy ==
  /\ alive
  /\ engine' = DestroyEffect(engine, state_)
  /\ state_' = IF state_ /= NULL THEN AfterDestroy(state_) ELSE state_
  /\ UNCHANGED <<alive, call, suppressionLevel_, vadThreshold_, comfortNoiseEnabled_,
                 smoothGain_, noiseState_, metrics_, frame, frameIn, frames, draws,
                 setArg>>
  /\ UNCHANGED rbVars

\* ~RNNoiseWrapper()
Destructor ==
  /\ alive
  /\ engine' = DestroyEffect(engine, state_)
  /\ state_' = IF state_ /= NULL THEN AfterDestroy(state_) ELSE state_
  /\ alive' = FALSE
  /\ UNCHANGED <<call, suppressionLevel_, vadThreshold_, comfortNoiseEnabled_,
                 smoothGain_, noiseState_, metrics_, frame, frameIn, frames, draws,
                 setArg>>
  /\ UNCHANGED rbVars

(* ------------------------------------------------------------------ *)
(* Settings  (rnnoise_wrapper.cpp:177-197)                             *)
(* ------------------------------------------------------------------ *)

\* lines 177-180
SetSuppressionLevel(level) ==
  /\ alive
  /\ suppressionLevel_' = StdClamp(level, 0, One)
  /\ setArg' = [setArg EXCEPT !.level = level]
  /\ UNCHANGED <<alive, call, state_, vadThreshold_, comfortNoiseEnabled_, smoothGain_,
                 noiseState_, metrics_, frame, frameIn, engine, frames, draws>>
  /\ UNCHANGED rbVars

\* setVadThreshold() storing its argument as it comes
VadThresholdUnclamped(threshold) == threshold

\* line 187: std::clamp(threshold, 0.0f, 1.0f)
VadThresholdStored(threshold) == StdClamp(threshold, 0, One)

\* lines 186-189
SetVadThreshold(threshold) ==
  /\ alive
  /\ vadThreshold_' = VadThresholdStored(threshold)
  /\ setArg' = [setArg EXCEPT !.threshold = threshold]
  /\ UNCHANGED <<alive, call, state_, suppressionLevel_, comfortNoiseEnabled_, smoothGain_,
                 noiseState_, metrics_, frame, frameIn, engine, frames, draws>>
  /\ UNCHANGED rbVars

\* lines 195-197
SetComfortNoise(enabled) ==
  /\ alive
  /\ comfortNoiseEnabled_' = enabled
  /\ UNCHANGED <<alive, call, state_, suppressionLevel_, vadThreshold_, smoothGain_,
                 noiseState_, metrics_, frame, frameIn, engine, frames, draws, setArg>>
  /\ UNCHANGED rbVars

\* lines 182-184: getSuppressionLevel()
GetSuppressionLevel ==
  /\ alive
  /\ call' = [op |-> "getSuppressionLevel", ret |-> suppressionLevel_,
               engineRan |-> FALSE, gate |-> "none"]
  /\ UNCHANGED <<alive, state_, suppressionLevel_, vadThreshold_, comfortNoiseEnabled_,
                 smoothGain_, noiseState_, metrics_, frame, frameIn, engine, frames,
                 draws, setArg>>
  /\ UNCHANGED rbVars

\* lines 191-193: getVadThreshold()
GetVadThreshold ==
  /\ alive
  /\ call' = [op |-> "getVadThreshold", ret |-> vadThreshold_,
               engineRan |-> FALSE, gate |-> "none"]
  /\ UNCHANGED <<alive, state_, suppressionLevel_, vadThreshold_, comfortNoiseEnabled_,
                 smoothGain_, noiseState_, metrics_, frame, frameIn, engine, frames,
                 draws, setArg>>
  /\ UNCHANGED rbVars

(* ------------------------------------------------------------------ *)
(* Initial state and specifications                                    *)
(* ------------------------------------------------------------------ *)

ConstFrame(v) == [i \in FrameIdx |-> v]
AltFrame(v) == [i \in FrameIdx |-> IF i % 2 = 1 THEN v ELSE -(v \div 2)]

\* the wrapper after its constructor (rnnoise_wrapper.h:95-117)
InitFP ==
  /\ alive = TRUE
  /\ state_ = NULL
  /\ suppressionLevel_ = One
  /\ vadThreshold_ = One \div 2
  /\ comfortNoiseEnabled_ = TRUE
  /\ smoothGain_ = InitialGain
  /\ noiseState_ = kNoiseSeed
  /\ metrics_ = ResetMetrics
  /\ frame = ConstFrame(0)
  /\ frameIn = ConstFrame(0)
  /\ call = [op |-> "none", ret |-> 0, engineRan |-> FALSE, gate |-> "none"]
  /\ engine = [created |-> 0, destroyed |-> [h \in 1 .. MaxHandles |-> 0]]
  /\ frames = 0
  /\ draws = 0
  /\ setArg = [level |-> One, threshold |-> One \div 2]

Init == InitRB /\ InitFP

\* the ring buffer under its two threads
Next == NextRB /\ UNCHANGED fpVars

Spec == Init /\ [][Next]_vars

\* inputs of SpecFP
InputFrames == {ConstFrame(0), AltFrame(One)}
VadValues == {0, (45 * One) \div 100, One}
FPEngineModes == {"identity", "half"}
LevelArgs == {-One, One \div 2, 2 * One}
ThresholdArgs == {-One, One \div 2, 2 * One}

\* the wrapper through its whole interface, for a few frames
NextFP ==
  \/ \E ok \in BOOLEAN : InitCall(ok)
  \/ Destroy
  \/ Destructor
  \/ \E f \in InputFrames, vad \in VadValues, eng \in FPEngineModes :
       frames < MaxFrames /\ ProcessFrame(f, vad, eng)
  \/ \E v \in LevelArgs : SetSuppressionLevel(v)
  \/ \E v \in ThresholdArgs : SetVadThreshold(v)
  \/ \E b \in BOOLEAN : SetComfortNoise(b)

\* no ring buffer is involved in the wrapper's specifications
InitNoRB ==
  /\ buffer_ = [s \in Slots |-> 0]
  /\ read_idx_ = 0
  /\ write_idx_ = 0
  /\ prod = Idle
  /\ cons = Idle
  /\ accepted = 0
  /\ writeLog = << >>
  /\ readLog = << >>

\* the wrapper after its constructor, on its own
InitWrapper == InitNoRB /\ InitFP

SpecFP == InitWrapper /\ [][NextFP]_vars

\* inputs of SpecGate
GateFrames == {AltFrame(One \div 4)}
GateVads == {0, (45 * One) \div 100, One}
GateLevels == {0, One}
GateThresholds == {0, One \div 20, One \div 10, One \div 2}

\* the gate over any number of frames
NextGate ==
  \/ state_ = NULL /\ InitCall(TRUE)
  \/ \E f \in GateFrames, vad \in GateVads :
       draws < MaxDraws /\ ProcessFrame(f, vad, "identity")
  \/ \E v \in GateLevels : SetSuppressionLevel(v)
  \/ \E v \in GateThresholds : SetVadThreshold(v)
  \/ \E b \in BOOLEAN : SetComfortNoise(b)

SpecGate == InitWrapper /\ [][NextGate]_vars

\* the settings under setters and getters called in any order, around init()
\* and destroy()
NextSettings ==
  \/ \E ok \in BOOLEAN : InitCall(ok)
  \/ Destroy
  \/ \E v \in LevelArgs : SetSuppressionLevel(v)
  \/ \E v \in ThresholdArgs : SetVadThreshold(v)
  \/ \E b \in BOOLEAN : SetComfortNoise(b)
  \/ GetSuppressionLevel
  \/ GetVadThreshold

SpecSettings == InitWrapper /\ [][NextSettings]_vars

\* inputs of SpecInit
InitVads == {0}

\* init() called at any time, succeeding or failing, around frames that close
\* the gate until comfort noise is drawn
NextInit ==
  \/ \E ok \in BOOLEAN : InitCall(ok)
  \/ Destroy
  \/ \E f \in GateFrames, vad \in InitVads :
       draws < MaxDraws /\ ProcessFrame(f, vad, "identity")
  \/ \E v \in GateLevels : SetSuppressionLevel(v)
  \/ \E b \in BOOLEAN : SetComfortNoise(b)

SpecInit == InitWrapper /\ [][NextInit]_vars

\* inputs of SpecOpen
OpenVads == {0, One}
OpenThresholds == {0, One \div 2, One}

\* the gate driven shut and open again at full suppression, comfort noise off
NextOpen ==
  \/ state_ = NULL /\ InitCall(TRUE)
  \/ \E f \in GateFrames, vad \in OpenVads :
       draws < MaxDraws /\ ProcessFrame(f, vad, "identity")
  \/ \E v \in OpenThresholds : SetVadThreshold(v)
  \/ SetComfortNoise(FALSE)

SpecOpen == InitWrapper /\ [][NextOpen]_vars

\* frames are run while the generator may still be stepped, and passthrough
\* frames, which cannot step it, at any time
MayRunFrame == draws < MaxDraws \/ PassThrough(suppressionLevel_)

\* the gate at the default threshold, with suppression switched between
\* bypass and full and the comfort-noise flag toggled at any time
NextNoise ==
  \/ state_ = NULL /\ InitCall(TRUE)
  \/ \E f \in GateFrames, vad \in OpenVads :
       MayRunFrame /\ ProcessFrame(f, vad, "identity")
  \/ \E v \in GateLevels : SetSuppressionLevel(v)
  \/ \E b \in BOOLEAN : SetComfortNoise(b)

SpecNoise == InitWrapper /\ [][NextNoise]_vars

(* ================================================================== *)
(* Claims on the ring buffer, checked under Spec                       *)
(* ================================================================== *)

IsPrefix(s, t) == Len(s) <= Len(t) /\ SubSeq(t, 1, Len(s)) = s

\* a call of the given operation that has computed its result and not yet returned
Returning(t, op) == t.pc = "done" /\ t.op = op

\* C1: available_read() is at most capacity-1 in every reachable state,
\* whether evaluated on the indices of the state or returned by a call of
\* either thread, and write() returns no more than the free space it computed
\* from the indices it loaded.
C1_CapacityInvariant ==
  /\ UsedOf(write_idx_, read_idx_) <= capacity_ - 1
  /\ \A t \in {prod, cons} : Returning(t, "available_read") => t.ret <= capacity_ - 1
  /\ Returning(prod, "write") => prod.ret <= prod.limit

\* C2: the samples returned by read() are at every moment a prefix of the
\* samples accepted by write(), and the samples the consumer has copied out
\* in a read() in progress continue that prefix (each was published before
\* it was copied).
C2_ConservationFifo ==
  /\ IsPrefix(readLog, writeLog)
  /\ Len(readLog) <= Len(writeLog)
  /\ (cons.op = "read" /\ cons.pc \in {"copy", "store"})
       => IsPrefix(readLog \o cons.buf, writeLog)

\* C3: a write() of N samples into a queue with at least N free slots accepts
\* all N, and once the queue has been drained (no call in progress on the
\* producer side, available_read() = 0) the reads have returned exactly the
\* samples written, in order, none lost or duplicated.
C3_RoundTrip ==
  /\ (Returning(prod, "write") /\ prod.req <= capacity_ - 1 - prod.live)
       => prod.ret = prod.req
  /\ (prod.pc = "idle" /\ cons.pc \in {"idle", "done"}
        /\ UsedOf(write_idx_, read_idx_) = 0)
       => readLog = writeLog

\* C4: a write() of more samples than the free space f = capacity - used - 1
\* returns f, having stored exactly the first f samples of src, and every
\* queued unread sample stays in its slot unchanged.
C4_DropNewest ==
  /\ (Returning(prod, "write") /\ prod.req > capacity_ - 1 - prod.live)
       => LET f == capacity_ - 1 - prod.live
          IN /\ prod.ret = f
             /\ f >= 0
             /\ SubSeq(writeLog, Len(writeLog) - f + 1, Len(writeLog))
                  = SubSeq(prod.buf, 1, f)
  /\ \A k \in (Len(readLog) + 1) .. Len(writeLog) :
       buffer_[(k - 1) % capacity_] = writeLog[k]

\* C5: the value available_read() returns, on the producer thread or on the
\* consumer thread, never exceeds the number of unread samples in the queue
\* at the moment it returns.
C5_AvailableReadLowerBound ==
  \A t \in {prod, cons} : Returning(t, "available_read") => t.ret <= Unread

(* ================================================================== *)
(* Claims on the frame processor                                       *)
(* ================================================================== *)

\* a step that is a processFrame() call counted by the frame counter
CountedFrame ==
  /\ call'.op = "processFrame"
  /\ metrics_'.framesProcessed /= metrics_.framesProcessed

\* C6 (SpecGate): the smoothed gate gain stays within [kMinGateGain, 1.0]
\* after init() and after any sequence of frames and setter calls.
C6_GainRange == kMinGateGain <= smoothGain_ /\ smoothGain_ <= One

\* a frame that took the hysteresis-band branch has left the gain close to
\* the floor
C6_Witness ==
  /\ call.op = "processFrame"
  /\ call.gate = "band"
  /\ smoothGain_ < kComfortGainLimit
  /\ smoothGain_ > kMinGateGain

\* C7 (SpecFP): processFrame() without an engine handle returns 0.0, leaves
\* the frame as it was passed in and changes no state of the wrapper.
C7_UninitNoOp ==
  [][(frames' /= frames /\ state_ = NULL)
       => /\ call'.op = "processFrame"
          /\ call'.ret = 0
          /\ ~call'.engineRan
          /\ frame' = frameIn'
          /\ UNCHANGED <<smoothGain_, noiseState_, metrics_, state_, engine,
                         suppressionLevel_, vadThreshold_, comfortNoiseEnabled_>>]_vars

\* a non-zero frame went through processFrame() after destroy(): the only
\* processFrame() call so far was not counted
C7_Witness ==
  /\ frames = 1
  /\ call.op = "processFrame"
  /\ state_ = NULL
  /\ engine.created = 1
  /\ metrics_.framesProcessed = 0
  /\ frame = AltFrame(One)

\* C8 (SpecFP): with suppression level 0 on an initialized processor the
\* frame is left unchanged, the engine is not invoked, the call returns 0, and
\* the metrics are vadProbability = 0, currentGain = 1, inputRms = outputRms =
\* RMS of the frame, framesProcessed one more than before.
C8_Passthrough ==
  [][(frames' /= frames /\ state_ /= NULL /\ suppressionLevel_ = 0)
       => /\ call'.op = "processFrame"
          /\ call'.ret = 0
          /\ ~call'.engineRan
          /\ frame' = frameIn'
          /\ metrics_'.vadProbability = 0
          /\ metrics_'.currentGain = One
          /\ metrics_'.inputRms = metrics_'.outputRms
          /\ metrics_'.inputRms = computeRms(frameIn')
          /\ metrics_'.framesProcessed = NextCount(metrics_.framesProcessed)]_vars

\* a loud frame went through the fast path after the gate had moved
C8_Witness ==
  /\ call.op = "processFrame"
  /\ ~call.engineRan
  /\ state_ /= NULL
  /\ suppressionLevel_ = 0
  /\ smoothGain_ < One
  /\ metrics_.currentGain = One
  /\ metrics_.inputRms > 0
  /\ frame = AltFrame(One)

\* C9 (SpecFP): every engine handle is passed to rnnoise_destroy at most once,
\* a held handle has not been released, every other handle created so far has
\* been released exactly once (a second init() releases the previous handle),
\* and nothing is held after the destructor.
C9_HandleLifecycle ==
  /\ \A h \in 1 .. MaxHandles :
       /\ engine.destroyed[h] <= 1
       /\ h > engine.created => engine.destroyed[h] = 0
       /\ (h <= engine.created /\ h /= state_) => engine.destroyed[h] = 1
  /\ state_ /= NULL => (state_ <= engine.created /\ engine.destroyed[state_] = 0)
  /\ ~alive => state_ = NULL

\* two handles were created and each was released once by the time the
\* object is gone
C9_Witness ==
  /\ ~alive
  /\ engine.created = 2
  /\ engine.destroyed[1] = 1
  /\ engine.destroyed[2] = 1

\* the largest distance from its target at which the smoothing step rounds to
\* no change
GateTol == (One \div 2) \div kGainSmoothCoeff

\* a full-path frame on which the engine reported VAD = 0.0
ZeroVadFrame ==
  /\ CountedFrame
  /\ call'.engineRan
  /\ call'.ret = 0

\* what C10 says of one such frame: the gain does not rise, stays at or above
\* the floor, and gets strictly closer to it while it is farther than GateTol
ClosesOneStep ==
  /\ smoothGain_' <= smoothGain_
  /\ smoothGain_' >= kMinGateGain
  /\ smoothGain_ > kMinGateGain + GateTol => smoothGain_' < smoothGain_

\* C10 as stated (SpecGate): for any VAD threshold in [0,1], frames with
\* VAD = 0.0 make the gain non-increasing, never below 0.001, and converging
\* to 0.001.
C10_GateCloses_AnyThreshold == [][ZeroVadFrame => ClosesOneStep]_vars

\* C10 amended (SpecGate): the same for a VAD threshold of at least
\* kVadHysteresis (0.1).
C10_GateCloses == [][(ZeroVadFrame /\ vadThreshold_ >= kVadHysteresis) => ClosesOneStep]_vars

\* frames with VAD = 0.0 have brought the gain from 1.0 to within GateTol of
\* the floor
C10_Witness ==
  /\ call.op = "processFrame"
  /\ call.engineRan
  /\ call.ret = 0
  /\ vadThreshold_ >= kVadHysteresis
  /\ smoothGain_ <= kMinGateGain + GateTol

(* ------------------------------------------------------------------ *)
(* Gate convergence on open                                            *)
(* ------------------------------------------------------------------ *)

Abs(a) == IF a >= 0 THEN a ELSE -a

\* the factor 0.92 by which the distance to the target shrinks per frame
OpenFactor == (92 * One) \div 100

\* a full-path frame at suppression level 1.0 on which the engine reported
\* VAD = 1.0
FullVadFrame ==
  /\ CountedFrame
  /\ call'.engineRan
  /\ call'.ret = One
  /\ suppressionLevel_ = One

\* what C11 says of one such frame: the gain does not fall, stays at or below
\* 1.0, its distance to 1.0 becomes 0.92 times what it was (to the nearest
\* unit), and it gets strictly closer to 1.0 while it is farther than GateTol
OpensOneStep ==
  /\ smoothGain_' >= smoothGain_
  /\ smoothGain_' <= One
  /\ 2 * Abs(One * (One - smoothGain_') - OpenFactor * (One - smoothGain_)) <= One
  /\ smoothGain_ < One - GateTol => smoothGain_' > smoothGain_

\* C11 (SpecOpen): at suppression level 1.0, for every VAD threshold in [0,1]
\* and from any smoothed gain, a frame with VAD = 1.0 leaves the gain
\* non-decreasing with its distance to 1.0 shrunk by the factor 0.92, so that
\* consecutive such frames bring it to 1.0 within rounding.
C11_GateOpens == [][FullVadFrame => OpensOneStep]_vars

\* frames with VAD = 1.0 at threshold 1.0 have brought a gain that had been
\* lowered back to within GateTol of 1.0
C11_Witness ==
  /\ call.op = "processFrame"
  /\ call.engineRan
  /\ call.ret = One
  /\ vadThreshold_ = One
  /\ smoothGain_ >= One - GateTol
  /\ smoothGain_ < One

(* ------------------------------------------------------------------ *)
(* Settings                                                            *)
(* ------------------------------------------------------------------ *)

\* the clamp to [0,1] as C12 spells it out: v < 0 gives 0, v > 1 gives 1,
\* otherwise v
Clamp01(v) == IF v < 0 THEN 0 ELSE IF v > One THEN One ELSE v

\* each setting is in [0,1] and is the clamp of the float last stored to it
SettingsClamped ==
  /\ 0 <= suppressionLevel_ /\ suppressionLevel_ <= One
  /\ suppressionLevel_ = Clamp01(setArg.level)
  /\ 0 <= vadThreshold_ /\ vadThreshold_ <= One
  /\ vadThreshold_ = Clamp01(setArg.threshold)

\* a getter returns the setting as it is, which is that clamp; a step that is
\* not a setter call leaves both settings alone
GettersReturnSettings ==
  /\ (call' /= call /\ call'.op = "getSuppressionLevel")
       => /\ call'.ret = suppressionLevel_
          /\ call'.ret = Clamp01(setArg.level)
  /\ (call' /= call /\ call'.op = "getVadThreshold")
       => /\ call'.ret = vadThreshold_
          /\ call'.ret = Clamp01(setArg.threshold)
  /\ setArg' = setArg => UNCHANGED <<suppressionLevel_, vadThreshold_>>

\* C12 (SpecSettings): the settings start at 1.0 and 0.5; after any sequence
\* of setSuppressionLevel(v) and setVadThreshold(v) calls each is in [0,1] and
\* equal to the last argument clamped to [0,1]; getSuppressionLevel() and
\* getVadThreshold() return exactly these values.
C12_SettingClamps ==
  /\ suppressionLevel_ = One /\ vadThreshold_ = One \div 2
  /\ []SettingsClamped
  /\ [][GettersReturnSettings]_vars

\* getVadThreshold() has returned 1.0 after setVadThreshold(2.0), with the
\* suppression level at 0 after setSuppressionLevel(-1.0)
C12_Witness ==
  /\ call.op = "getVadThreshold"
  /\ call.ret = One
  /\ setArg.threshold = 2 * One
  /\ setArg.level = -One
  /\ suppressionLevel_ = 0

(* ------------------------------------------------------------------ *)
(* Comfort noise                                                       *)
(* ------------------------------------------------------------------ *)

\* a processFrame() call that ran the engine
FullPathFrame == CountedFrame /\ call'.engineRan

\* the frame after the gate of a full-path call at suppression level 1.0 on
\* an engine that returns its input: each sample times the new gain
GatedFrame == [i \in FrameIdx |-> Mul(frameIn'[i], smoothGain_')]

\* the i-th noise sample of the call, scaled by (0.1 - gain) / 0.1
ScaledNoise(i) ==
  Mul(NoiseSample(NoiseAfter(noiseState_, i)),
      Div(kComfortGainLimit - smoothGain_', kComfortGainLimit))

\* C13 (SpecNoise): a full-path processFrame() injects noise exactly when the
\* comfort-noise flag is enabled and the gain after this frame's update is
\* below 0.1: then the generator is stepped once per sample of the frame and
\* each sample receives its scaled noise sample; otherwise the generator
\* state is unchanged, no sample is drawn and the frame is the gated frame.
C13_ComfortNoiseGating ==
  [][FullPathFrame
       => IF comfortNoiseEnabled_ /\ smoothGain_' < kComfortGainLimit
          THEN /\ draws' = draws + kRNNoiseFrameSize
               /\ noiseState_' = NoiseAfter(noiseState_, kRNNoiseFrameSize)
               /\ noiseState_' /= noiseState_
               /\ \A i \in FrameIdx : frame'[i] = GatedFrame[i] + ScaledNoise(i)
          ELSE /\ draws' = draws
               /\ noiseState_' = noiseState_
               /\ frame' = GatedFrame]_vars

\* a frame with the flag enabled and the gain below 0.1 has stepped the
\* generator once per sample and left audible noise in the frame
C13_Witness ==
  /\ call.op = "processFrame"
  /\ call.engineRan
  /\ comfortNoiseEnabled_
  /\ smoothGain_ < kComfortGainLimit
  /\ draws = kRNNoiseFrameSize
  /\ noiseState_ = NoiseAfter(kNoiseSeed, kRNNoiseFrameSize)
  /\ \E i \in FrameIdx : frame[i] /= Mul(frameIn[i], smoothGain_)

(* ------------------------------------------------------------------ *)
(* Gate target                                                         *)
(* ------------------------------------------------------------------ *)

\* the gain after a frame is the smoothing of the gain before it toward t
MovedToward(t) == smoothGain_' = SmoothGain(smoothGain_, t)

\* C14 (SpecFP): on every full-path frame the gain is smoothed toward the
\* target the comment of lines 128-133 documents: 1.0 when the VAD
\* probability is at or above the threshold, kMinGateGain when it is below
\* threshold - hysteresis, and a value between the two inside the band.
C14_GateTargetDocumented ==
  [][FullPathFrame
       => LET vad == call'.ret
              lower == vadThreshold_ - kVadHysteresis
          IN /\ vad >= vadThreshold_ => MovedToward(One)
             /\ vad < lower => MovedToward(kMinGateGain)
             /\ (lower <= vad /\ vad < vadThreshold_)
                  => \E t \in kMinGateGain .. One : MovedToward(t)]_vars

\* VAD probabilities from 0.0 to 1.0 in steps of 0.05
VadGrid == {(k * One) \div 20 : k \in 0 .. 20}

\* C18 (SpecFP): for the threshold currently configured, the target gain of
\* lines 134-146 is a non-decreasing function of the VAD probability over
\* [0,1]: of two frames, the one with the higher VAD probability never gets
\* the lower target.
C18_TargetMonotone ==
  \A v1 \in VadGrid : \A v2 \in VadGrid :
    v1 <= v2 => TargetGain(v1, vadThreshold_) <= TargetGain(v2, vadThreshold_)

(* ------------------------------------------------------------------ *)
(* init()                                                              *)
(* ------------------------------------------------------------------ *)

\* a step that is an init() call: it returned, and either its result is new
\* or it created a handle
InitStep ==
  /\ call'.op = "init"
  /\ (call' /= call \/ engine'.created /= engine.created)

\* C15 (SpecInit): after init() returns, true or false, the smoothed gain is
\* 1.0, the generator state is 0x12345678, the metrics are framesProcessed =
\* 0, inputRms = outputRms = vadProbability = 0, currentGain = 1; it returns
\* true exactly when rnnoise_create handed out a handle, which the wrapper
\* then holds; the three settings are as they were.
C15_InitResets ==
  [][InitStep
       => /\ smoothGain_' = One
          /\ noiseState_' = BitsOf(4660, 22136)
          /\ metrics_'.framesProcessed = 0
          /\ metrics_'.inputRms = 0
          /\ metrics_'.outputRms = 0
          /\ metrics_'.vadProbability = 0
          /\ metrics_'.currentGain = One
          /\ call'.ret = (engine'.created /= engine.created)
          /\ call'.ret = (state_' /= NULL)
          /\ call'.ret => state_' = engine'.created
          /\ UNCHANGED <<suppressionLevel_, vadThreshold_, comfortNoiseEnabled_>>]_vars

\* init() has failed on a processor that held a handle and had processed
\* frames, with settings changed: the state is reset, the settings kept
C15_Witness ==
  /\ call.op = "init"
  /\ ~call.ret
  /\ state_ = NULL
  /\ frames >= 1
  /\ engine.created = 1
  /\ engine.destroyed[1] = 1
  /\ smoothGain_ = One
  /\ noiseState_ = kNoiseSeed
  /\ metrics_.framesProcessed = 0
  /\ suppressionLevel_ = 0
  /\ ~comfortNoiseEnabled_

(* ================================================================== *)
(* Index wrap-around and slot ownership of the ring buffer (Spec)      *)
(* ================================================================== *)

\* a write() that has computed its free space, a read() that has computed
\* its used space
WriteSized == prod.op = "write" /\ prod.pc \in {"copy", "store", "done"}
ReadSized == cons.op = "read" /\ cons.pc \in {"copy", "store", "done"}

\* C16: with indices that wrap modulo 2^w the queue behaves as a queue with
\* unbounded indices: the used count write() and read() compute from the
\* indices is the number of samples unread at the moment they load the other
\* thread's index, no more than capacity-1 samples are ever unread, and the
\* samples read are a prefix of the samples written.
C16_WrapAround ==
  /\ WriteSized => prod.limit = capacity_ - 1 - prod.live
  /\ ReadSized => cons.limit = cons.live
  /\ 0 <= Unread /\ Unread <= capacity_ - 1
  /\ IsPrefix(readLog, writeLog)

\* the storage slots a write() in progress may still store into or has stored
\* into and not yet published
WriteSlots ==
  IF prod.op = "write" /\ prod.pc \in {"copy", "store"}
  THEN {SlotOf(prod.w, i) : i \in 0 .. (prod.count - 1)}
  ELSE {}

\* the storage slots a read() in progress copies out before it publishes the
\* read index
ReadSlots ==
  IF cons.op = "read" /\ cons.pc \in {"copy", "store"}
  THEN {SlotOf(cons.r, i) : i \in 0 .. (cons.count - 1)}
  ELSE {}

\* the slots from the published read index up to the published write index:
\* those of the samples written and not yet consumed
UnreadSlots == {SlotOf(read_idx_, i) : i \in 0 .. (Unread - 1)}

\* C17: the slots a running write() touches hold no sample the consumer has
\* yet to finish consuming: they are disjoint from the slots between the
\* published read index and the write index and from the slots a running
\* read() touches.
C17_SlotExclusivity ==
  /\ WriteSlots \cap UnreadSlots = {}
  /\ WriteSlots \cap ReadSlots = {}

\* a write() or read() that has computed its result, made by a thread whose
\* last availability query granted at least the count it asks for
GrantedCall(t, op) ==
  /\ Returning(t, op)
  /\ t.granted /= NoGrant
  /\ t.req <= t.granted

\* C19: available_write() returns capacity - available_read() - 1 for the
\* indices it loaded; a write(src, count) by the producer with count no more
\* than what its last available_write() returned accepts all count samples,
\* and a read(dst, count) by the consumer with count no more than what its
\* last available_read() returned returns count, whatever the other thread
\* does in between.
C19_GrantHonoured ==
  /\ \A t \in {prod, cons} :
       Returning(t, "available_write")
         => t.ret = capacity_ - AvailResult("available_read", t.w, t.r) - 1
  /\ GrantedCall(prod, "write")
       => /\ prod.ret = prod.req
          /\ SubSeq(writeLog, Len(writeLog) - prod.req + 1, Len(writeLog)) = prod.buf
  /\ GrantedCall(cons, "read") => cons.ret = cons.req

(* ------------------------------------------------------------------ *)
(* Fast path and the smoothed gain                                     *)
(* ------------------------------------------------------------------ *)

\* a processFrame() call that took the passthrough path
FastPathFrame == CountedFrame /\ ~call'.engineRan

\* the last call was a passthrough frame: currentGain was published as 1.0
AfterBypass ==
  /\ call.op = "processFrame"
  /\ ~call.engineRan
  /\ state_ /= NULL
  /\ metrics_.currentGain = One

\* C20 (SpecNoise): a passthrough processFrame() leaves the smoothed gain and
\* the noise generator state as they were and publishes currentGain = 1; the
\* full-path frame that follows a passthrough frame smooths from the gain
\* held through the bypass, moving it by kGainSmoothCoeff of its distance to
\* the frame's target, not from the 1.0 that was published.
C20_FastPathKeepsGain ==
  [][/\ FastPathFrame
          => /\ UNCHANGED <<smoothGain_, noiseState_>>
             /\ metrics_'.currentGain = One
     /\ (FullPathFrame /\ AfterBypass)
          => LET target == TargetGain(call'.ret, vadThreshold_)
             IN /\ smoothGain_'
                     = StdClamp(smoothGain_ + Mul(kGainSmoothCoeff, target - smoothGain_),
                                kMinGateGain, One)
                /\ metrics_'.currentGain = smoothGain_']_vars

\* a passthrough frame has gone by with the gate nearly shut and the noise
\* generator already stepped: the gain is held, the metric says 1.0
C20_Witness ==
  /\ AfterBypass
  /\ suppressionLevel_ = 0
  /\ smoothGain_ < kComfortGainLimit
  /\ draws = kRNNoiseFrameSize
  /\ noiseState_ /= kNoiseSeed

====
